---- MODULE Spec2Model ----
(***************************************************************************)
(* A model of gziface::SceneManager (src/gziface/src/SceneManager.cc): the *)
(* three id -> node maps, the create operations, AddSensor, RemoveEntity   *)
(* and the lookups, together with the part of the rendering scene they     *)
(* act on (nodes, parent/child links, materials, destroy requests).        *)
(*                                                                         *)
(* Scene objects are identified by their scene object id.  Entity poses,   *)
(* colours and light parameters are written to a node and never read by    *)
(* the manager; they are left out.                                         *)
(***************************************************************************)
EXTENDS Integers, Sequences, FiniteSets

(* ------------------------------ bounds -------------------------------- *)

\* no create call is issued once the scene has handed out this many node
\* ids
MaxObjects == 4

\* LoadMaterial is not called on its own once the scene has handed out
\* more than this many materials
MaxMaterials == 1

\* the external entity ids handed to the manager
Ids == {0, 1}

\* the ids SetWorldId is called with
WorldIds == {0, 1}

(* ----------------------------- constants ------------------------------ *)

\* an empty shared pointer (VisualPtr(), LightPtr(), NodePtr(), nullptr)
NullPtr == 0

\* object id of the scene's root visual
RootId == 1

\* the scenes the renderer has, by address: the ScenePtr values SetScene
\* is called with are these and the empty pointer
Scenes == {1}

\* the sensors the external sensor subsystem has created in the scene
SensorIds == {RootId + 1}

\* rendering-side ids AddSensor is called with: the root visual (not a
\* sensor), the sensors, and the first id handed out afterwards
RenderingIds == {RootId} \cup SensorIds \cup {RootId + 2}

DefaultMaterialName == "ign-grey"

UnitZ == <<0, 0, 1>>
One == <<1, 1, 1>>

\* entity names of the descriptions
Names == {"", "a"}

(* sdf::Geometry descriptions: type and the shape parameters LoadGeometry  *)
(* reads.  type "NULL" stands for a visual without geometry (Geom() is     *)
(* null), "EMPTY" for a geometry type LoadGeometry does not support.       *)
Geom(t, dims, normal, uri) ==
    [type |-> t, dims |-> dims, normal |-> normal, uri |-> uri]

NoGeom == Geom("NULL", <<0, 0, 0>>, UnitZ, "")

Geometries ==
    { Geom("BOX", <<1, 2, 3>>, UnitZ, ""),
      Geom("CYLINDER", <<1, 3, 0>>, UnitZ, ""),
      Geom("PLANE", <<2, 3, 0>>, UnitZ, ""),
      Geom("PLANE", <<2, 3, 0>>, <<1, 0, 0>>, ""),
      Geom("SPHERE", <<2, 0, 0>>, UnitZ, ""),
      Geom("MESH", <<1, 1, 2>>, UnitZ, "m.dae"),
      Geom("MESH", <<1, 1, 2>>, UnitZ, ""),
      Geom("EMPTY", <<0, 0, 0>>, UnitZ, "") }

(* sdf::Material descriptions: none, no PBR block, a PBR block with the    *)
(* metal workflow, a PBR block without it whose workflow names no map,    *)
(* and one whose workflow names maps.                                     *)
MaterialDescs ==
    {"NONE", "PLAIN", "PBR_METAL", "PBR_OTHER", "PBR_OTHER_MAPS"}

LightTypes == {"POINT", "SPOT", "DIRECTIONAL", "INVALID"}

Visual(name, geom, material) ==
    [name |-> name, geom |-> geom, material |-> material]

\* the visuals the manager is given: a named one of every geometry and
\* without material, and unnamed ones: a box with every material and a
\* plane that is not horizontal
VisualDescs ==
    { Visual("a", g, "NONE") : g \in Geometries \cup {NoGeom} }
    \cup
    { Visual("", g, m) : g \in {x \in Geometries : x.type = "BOX"},
                         m \in MaterialDescs }
    \cup
    { Visual("", g, "NONE") :
        g \in {x \in Geometries : x.type = "PLANE" /\ x.normal # UnitZ} }

VARIABLES
    worldId,    \* SceneManagerPrivate::worldId
    scene,      \* SceneManagerPrivate::scene (NullPtr: an empty ScenePtr)
    visuals,    \* SceneManagerPrivate::visuals  (id -> visual object id)
    lights,     \* SceneManagerPrivate::lights   (id -> light object id)
    sensors,    \* SceneManagerPrivate::sensors  (id -> sensor object id)
    nodes,      \* the renderer's scene: object id -> node, for every
                \* node alive (the scene exists whether or not the
                \* manager holds a pointer to it)
    materials,  \* the scene's named materials: name -> material object id
    nextId,     \* the id of the next node the scene creates
    nextMat,    \* the id of the next material the scene creates
    destroyed,  \* the destroy calls the manager has made, in order
    greyMade,   \* number of CreateMaterial("ign-grey") calls made
    crashed,    \* the process has died on a null dereference
    last,       \* the last call: its arguments and what it returned
    pending     \* the caller's note of a create call it is to retry

vars == <<worldId, scene, visuals, lights, sensors, nodes, materials,
          nextId, nextMat, destroyed, greyMade, crashed, last, pending>>

(* ------------------------------ std::map ------------------------------ *)

Find(m, k) == k \in DOMAIN m

Put(m, k, v) == [x \in DOMAIN m \cup {k} |-> IF x = k THEN v ELSE m[x]]

\* (an erase that empties the map)
Erase_all(m, k) == [x \in {} |-> m[x]]

Erase(m, k) == [x \in DOMAIN m \ {k} |-> m[x]]

Range(m) == {m[k] : k \in DOMAIN m}

(* --------------------------- std::to_string --------------------------- *)

Digit(d) ==
    CASE d = 0 -> "0" [] d = 1 -> "1" [] d = 2 -> "2" [] d = 3 -> "3"
      [] d = 4 -> "4" [] d = 5 -> "5" [] d = 6 -> "6" [] d = 7 -> "7"
      [] d = 8 -> "8" [] d = 9 -> "9"

RECURSIVE to_string(_)
to_string(n) ==
    IF n < 10 THEN Digit(n) ELSE to_string(n \div 10) \o Digit(n % 10)

(* ------------------------- the rendering scene ------------------------ *)

NewNode(kind, name) ==
    [kind |-> kind, name |-> name, parent |-> NullPtr, children |-> {},
     geom |-> "NONE", scale |-> One, mat |-> NullPtr]

\* Scene::CreateVisual(name), Create*Light(name): a new parentless node
SceneCreate(ns, h, kind, name) == Put(ns, h, NewNode(kind, name))

\* Node::AddChild
AddChild(ns, p, c) ==
    [h \in DOMAIN ns |->
        IF h = p /\ h = c
            THEN [ns[h] EXCEPT !.children = @ \cup {c}, !.parent = p]
        ELSE IF h = p THEN [ns[h] EXCEPT !.children = @ \cup {c}]
        ELSE IF h = c THEN [ns[h] EXCEPT !.parent = p]
        ELSE ns[h]]

\* Node::RemoveParent
RemoveParent(ns, c) ==
    LET p == ns[c].parent IN
    [h \in DOMAIN ns |->
        IF h = c THEN [ns[h] EXCEPT !.parent = NullPtr,
                                    !.children = IF p = c THEN @ \ {c} ELSE @]
        ELSE IF h = p THEN [ns[h] EXCEPT !.children = @ \ {c}]
        ELSE ns[h]]

\* Scene::DestroyVisual, Scene::DestroyLight: the node leaves the scene,
\* its parent forgets it and its children lose their parent
SceneDestroy(ns, d) ==
    [h \in DOMAIN ns \ {d} |->
        [ns[h] EXCEPT !.children = @ \ {d},
                      !.parent = IF @ = d THEN NullPtr ELSE @]]

\* Scene::SensorById
SensorById(ns, rid) ==
    IF rid \in DOMAIN ns /\ ns[rid].kind = "sensor" THEN rid ELSE NullPtr

\* Scene::Material(name)
SceneMaterial(ms, name) == IF name \in DOMAIN ms THEN ms[name] ELSE NullPtr

\* the nodes that have c among their children
ParentsOf(ns, c) == {p \in DOMAIN ns : c \in ns[p].children}

(* ------------------------- the result of a call ----------------------- *)

NoVisual == [name |-> "", geom |-> NoGeom, material |-> "NONE"]

Call(op, id, pid, name, visual, ok, node) ==
    [op |-> op, id |-> id, pid |-> pid, name |-> name, visual |-> visual,
     ok |-> ok, node |-> node]

\* the caller's note: no call to retry ("none"), a call that failed for
\* its parent ("failed"), the call once it was made again ("retried")
Pending(state, op, id, pid, name) ==
    [state |-> state, op |-> op, id |-> id, pid |-> pid, name |-> name]

NoPending == Pending("none", "none", 0, 0, "")

\* (an early return that leaves the id bound in the visuals map)
Fails_leavesEntry(call) ==
    /\ last' = call
    /\ visuals' = Put(visuals, call.id, RootId)
    /\ UNCHANGED <<worldId, scene, lights, sensors, nodes, materials,
                   nextId, nextMat, destroyed, greyMade, crashed>>

\* a call that returns early: nothing but the record of the call changes.
\* The record holds the arguments the call has read by then.
Fails(call) ==
    /\ last' = call
    /\ UNCHANGED <<worldId, scene, visuals, lights, sensors, nodes,
                   materials, nextId, nextMat, destroyed, greyMade, crashed>>

\* a call that goes through the empty scene pointer (scene->...): the
\* process dies on the spot, with nothing written
NullScene(call) ==
    /\ last' = call
    /\ crashed' = TRUE
    /\ UNCHANGED <<worldId, scene, visuals, lights, sensors, nodes,
                   materials, nextId, nextMat, destroyed, greyMade>>

(* ------------------------------- Init --------------------------------- *)

\* The manager as its constructor leaves it: the maps are empty, worldId
\* is 0 and the scene pointer is empty.  The renderer's scene holds its
\* root visual and the sensors of the sensor subsystem, each of them
\* either parentless or already placed under the root visual.
Init ==
    /\ worldId = 0
    /\ scene = NullPtr
    /\ visuals = <<>>
    /\ lights = <<>>
    /\ sensors = <<>>
    /\ \E attached \in SUBSET SensorIds :
          nodes = [h \in {RootId} \cup SensorIds |->
                     IF h = RootId
                         THEN [NewNode("visual", "root")
                                 EXCEPT !.children = attached]
                         ELSE [NewNode("sensor", "sensor" \o to_string(h))
                                 EXCEPT !.parent =
                                     IF h \in attached THEN RootId
                                                       ELSE NullPtr]]
    /\ materials = <<>>
    /\ nextId = RootId + Cardinality(SensorIds) + 1
    /\ nextMat = 1
    /\ destroyed = <<>>
    /\ greyMade = 0
    /\ crashed = FALSE
    /\ last = Call("none", 0, 0, "", NoVisual, FALSE, NullPtr)
    /\ pending = NoPending

(* ----------------------------- SetWorldId ----------------------------- *)

SetWorldId(_id) ==
    /\ worldId' = _id
    /\ last' = Call("SetWorldId", _id, 0, "", NoVisual, TRUE, NullPtr)
    /\ UNCHANGED <<scene, visuals, lights, sensors, nodes, materials,
                   nextId, nextMat, destroyed, greyMade, crashed>>

(* ------------------------------ SetScene ------------------------------ *)

SetScene(_scene) ==
    /\ scene' = _scene
    /\ last' = Call("SetScene", _scene, 0, "", NoVisual, TRUE, NullPtr)
    /\ UNCHANGED <<worldId, visuals, lights, sensors, nodes, materials,
                   nextId, nextMat, destroyed, greyMade, crashed>>

(* -------------------- the checks every create makes ------------------- *)

\* (a create that does not look for its id)
AlreadyExists_never(map, _id) == FALSE

\* the id is already a key of the map the call writes to
AlreadyExists(map, _id) == Find(map, _id)

\* (a create that looks for its parent in all three maps)
ParentMissing_anyMap(_parentId) ==
    /\ _parentId # worldId
    /\ ~(Find(visuals, _parentId) \/ Find(lights, _parentId)
           \/ Find(sensors, _parentId))

\* the parent is not the world and is no key of the visuals map
ParentMissing(_parentId) ==
    _parentId # worldId /\ ~Find(visuals, _parentId)

\* (a create that leaves its parent pointer empty)
Parent_unresolved(_parentId) == NullPtr

\* VisualPtr parent: empty for the world id, else the visual found
Parent(_parentId) ==
    IF _parentId # worldId /\ Find(visuals, _parentId)
        THEN visuals[_parentId]
        ELSE NullPtr

(* ------------------------ the name of a new node ---------------------- *)

\* name = <entity name, or its id in decimal>, prefixed by the parent's
\* name and "::" when a parent was resolved
EntityName(_name, _id, parent) ==
    LET name == IF _name = "" THEN to_string(_id) ELSE _name IN
    IF parent # NullPtr THEN nodes[parent].name \o "::" \o name ELSE name

(* ----------------------------- CreateModel ---------------------------- *)

CreateModel(_id, _model, _parentId) ==
    LET call(ok, node) ==
            Call("CreateModel", _id, _parentId, _model.name, NoVisual, ok, node)
        early == Call("CreateModel", _id, _parentId, "", NoVisual, FALSE, NullPtr)
    IN
    IF AlreadyExists(visuals, _id) THEN Fails(early)
    ELSE IF ParentMissing(_parentId) THEN Fails(early)
    ELSE IF scene = NullPtr THEN NullScene(early)
    ELSE
        LET parent == Parent(_parentId)
            name == EntityName(_model.name, _id, parent)
            modelVis == nextId
            created == SceneCreate(nodes, modelVis, "visual", name)
        IN
        /\ visuals' = Put(visuals, _id, modelVis)
        /\ nodes' = IF parent # NullPtr
                        THEN AddChild(created, parent, modelVis)
                        ELSE AddChild(created, RootId, modelVis)
        /\ nextId' = nextId + 1
        /\ last' = call(TRUE, modelVis)
        /\ UNCHANGED <<worldId, scene, lights, sensors, materials, nextMat,
                       destroyed, greyMade, crashed>>

(* ----------------------------- CreateLink ----------------------------- *)

CreateLink(_id, _link, _parentId) ==
    LET call(ok, node) ==
            Call("CreateLink", _id, _parentId, _link.name, NoVisual, ok, node)
        early == Call("CreateLink", _id, _parentId, "", NoVisual, FALSE, NullPtr)
    IN
    IF AlreadyExists(visuals, _id) THEN Fails(early)
    ELSE IF ParentMissing(_parentId) THEN Fails(early)
    ELSE IF scene = NullPtr THEN NullScene(early)
    ELSE
        LET parent == Parent(_parentId)
            name == EntityName(_link.name, _id, parent)
            linkVis == nextId
            created == SceneCreate(nodes, linkVis, "visual", name)
        IN
        /\ visuals' = Put(visuals, _id, linkVis)
        /\ nodes' = IF parent # NullPtr
                        THEN AddChild(created, parent, linkVis)
                        ELSE created
        /\ nextId' = nextId + 1
        /\ last' = call(TRUE, linkVis)
        /\ UNCHANGED <<worldId, scene, lights, sensors, materials, nextMat,
                       destroyed, greyMade, crashed>>
(* ---------------------------- LoadGeometry ---------------------------- *)

Cross(a, b) ==
    <<a[2] * b[3] - a[3] * b[2], a[3] * b[1] - a[1] * b[3],
      a[1] * b[2] - a[2] * b[1]>>

Dot(a, b) == a[1] * b[1] + a[2] * b[2] + a[3] * b[3]

\* math::Pose3d::Zero, and the default-constructed pose: no translation,
\* the identity rotation.  A rotation is written as the pair of a vector
\* and its image.
PoseZero == [from |-> UnitZ, to |-> UnitZ]

\* (a From2Axes that always yields the identity)
From2Axes_identity(v1, v2) == PoseZero

\* math::Quaterniond::From2Axes: the rotation taking v1 to v2; the
\* identity when v2 points the way v1 does (or has no direction at all)
From2Axes(v1, v2) ==
    IF Cross(v1, v2) = <<0, 0, 0>> /\ Dot(v1, v2) >= 0
        THEN PoseZero
        ELSE [from |-> v1, to |-> v2]

\* (a LoadGeometry that yields a geometry whatever it is given)
LoadGeometry_always(_geom, _scale, _localPose) ==
    [geom |-> "BOX", scale |-> One, localPose |-> PoseZero]

\* The geometry created ("NONE": a null GeometryPtr) and the values left
\* in the caller's _scale and _localPose.  A mesh without uri returns
\* before the two out-parameters are written.
LoadGeometry(_geom, _scale, _localPose) ==
    LET out(g, scale, localPose) ==
            [geom |-> g, scale |-> scale, localPose |-> localPose]
    IN
    IF _geom.type = "BOX"
        THEN out("BOX", _geom.dims, PoseZero)
    ELSE IF _geom.type = "CYLINDER"
        THEN out("CYLINDER",
                 <<_geom.dims[1] * 2, _geom.dims[1] * 2, _geom.dims[2]>>,
                 PoseZero)
    ELSE IF _geom.type = "PLANE"
        THEN out("PLANE", <<_geom.dims[1], _geom.dims[2], One[3]>>,
                 From2Axes(UnitZ, _geom.normal))
    ELSE IF _geom.type = "SPHERE"
        THEN out("SPHERE",
                 <<_geom.dims[1] * 2, _geom.dims[1] * 2, _geom.dims[1] * 2>>,
                 PoseZero)
    ELSE IF _geom.type = "MESH"
        THEN IF _geom.uri = ""
                 THEN out("NONE", _scale, _localPose)
                 ELSE out("MESH", _geom.dims, PoseZero)
    ELSE out("NONE", One, PoseZero)

(* ---------------------------- LoadMaterial ---------------------------- *)

\* the material has a PBR block and pbr->Workflow(METAL) is null, so
\* that workflow is still nullptr when workflow->AlbedoMap() is called
NullWorkflow(_material) == _material \in {"PBR_OTHER", "PBR_OTHER_MAPS"}

\* How a LoadMaterial call can end.  Without a PBR block, or with the
\* metal workflow, it returns the material it created.  With a PBR block
\* that has no metal workflow, workflow stays null and is dereferenced,
\* whatever maps the block names: the call may kill the process or carry
\* on.
LoadMaterial(_material) ==
    IF NullWorkflow(_material) THEN {"crash", "return"} ELSE {"return"}

(* ---------------------------- CreateVisual ---------------------------- *)

\* (a CreateVisual that does not look the default material up)
DefaultMaterial_notLookedUp == NullPtr

\* scene->Material("ign-grey"): the default material, if the scene has it
DefaultMaterial == SceneMaterial(materials, DefaultMaterialName)

CreateVisual(_id, _visual, _parentId) ==
    LET call(ok, node) ==
            Call("CreateVisual", _id, _parentId, _visual.name, _visual, ok,
                 node)
        early == Call("CreateVisual", _id, _parentId, "", NoVisual, FALSE,
                      NullPtr)
    IN
    IF AlreadyExists(visuals, _id) THEN Fails(early)
    ELSE IF ParentMissing(_parentId) THEN Fails(early)
    ELSE IF _visual.geom = NoGeom THEN Fails(early)
    ELSE IF scene = NullPtr THEN NullScene(early)
    ELSE
        LET parent == Parent(_parentId)
            name == EntityName(_visual.name, _id, parent)
            first == nextId
            n1 == SceneCreate(nodes, first, "visual", name)
            lg == LoadGeometry(_visual.geom, One, PoseZero)
            withGeomVis == lg.geom # "NONE" /\ lg.localPose # PoseZero
            visualVis == IF withGeomVis THEN first + 1 ELSE first
            n2 == IF withGeomVis
                      THEN SceneCreate(n1, visualVis, "visual",
                                       name \o "_geom")
                      ELSE n1
            n3 == [n2 EXCEPT ![visualVis].geom = lg.geom,
                             ![visualVis].scale = lg.scale]
            attach(ns) == IF parent # NullPtr
                              THEN AddChild(ns, parent, visualVis)
                              ELSE ns
            \* the rest of the call, once the material (if any) is there
            register(ns, mats) ==
                /\ visuals' = Put(visuals, _id, visualVis)
                /\ nodes' = attach(ns)
                /\ nextId' = visualVis + 1
                /\ nextMat' = nextMat + mats
                /\ crashed' = FALSE
                /\ last' = call(TRUE, visualVis)
        IN
        /\ UNCHANGED <<worldId, scene, lights, sensors, destroyed>>
        /\ IF lg.geom = "NONE"
               THEN /\ register(n1, 0)
                    /\ UNCHANGED <<materials, greyMade>>
           ELSE IF _visual.material # "NONE"
               THEN \E end \in LoadMaterial(_visual.material) :
                      /\ UNCHANGED <<materials, greyMade>>
                      /\ IF end = "crash"
                             THEN /\ crashed' = TRUE
                                  /\ nodes' = n3
                                  /\ nextId' = visualVis + 1
                                  /\ nextMat' = nextMat + 1
                                  /\ last' = call(FALSE, NullPtr)
                                  /\ UNCHANGED visuals
                             ELSE register(
                                    [n3 EXCEPT ![visualVis].mat = nextMat], 1)
           ELSE IF _visual.geom.type = "MESH"
               \* the material the mesh came with, an object of its own
               THEN /\ register([n3 EXCEPT ![visualVis].mat = nextMat], 1)
                    /\ UNCHANGED <<materials, greyMade>>
           ELSE
               LET found == DefaultMaterial
               IN
               IF found # NullPtr
                   THEN /\ register([n3 EXCEPT ![visualVis].mat = found], 0)
                        /\ UNCHANGED <<materials, greyMade>>
                   ELSE /\ register([n3 EXCEPT ![visualVis].mat = nextMat],
                                    1)
                        /\ materials' =
                               Put(materials, DefaultMaterialName, nextMat)
                        /\ greyMade' = greyMade + 1

(* ----------------------------- CreateLight ---------------------------- *)

CreateLight(_id, _light, _parentId) ==
    LET call(ok, node) ==
            Call("CreateLight", _id, _parentId, _light.name, NoVisual, ok,
                 node)
        early == Call("CreateLight", _id, _parentId, "", NoVisual, FALSE,
                      NullPtr)
    IN
    IF AlreadyExists(lights, _id) THEN Fails(early)
    ELSE IF ParentMissing(_parentId) THEN Fails(early)
    ELSE IF _light.type \notin {"POINT", "SPOT", "DIRECTIONAL"}
        THEN Fails(early)
    ELSE IF scene = NullPtr THEN NullScene(early)
    ELSE
        LET parent == Parent(_parentId)
            name == EntityName(_light.name, _id, parent)
            light == nextId
            created == SceneCreate(nodes, light, "light", name)
        IN
        /\ lights' = Put(lights, _id, light)
        /\ nodes' = IF parent # NullPtr
                        THEN AddChild(created, parent, light)
                        ELSE created
        /\ nextId' = nextId + 1
        /\ last' = call(TRUE, light)
        /\ UNCHANGED <<worldId, scene, visuals, sensors, materials, nextMat,
                       destroyed, greyMade, crashed>>

(* ------------------------------ AddSensor ----------------------------- *)

\* (an AddSensor that leaves the sensor's old parent link in place)
Reparent_keepsOldParent(ns, parent, sensor) == AddChild(ns, parent, sensor)

\* sensor->RemoveParent(); parent->AddChild(sensor);
Reparent(ns, parent, sensor) ==
    AddChild(RemoveParent(ns, sensor), parent, sensor)

AddSensor(_gazeboId, _renderingId, _parentGazeboId) ==
    LET call(ok, node) ==
            Call("AddSensor", _gazeboId, _parentGazeboId, "", NoVisual, ok,
                 node)
        sensor == SensorById(nodes, _renderingId)
    IN
    IF AlreadyExists(sensors, _gazeboId) THEN Fails(call(FALSE, NullPtr))
    ELSE IF ParentMissing(_parentGazeboId) THEN Fails(call(FALSE, NullPtr))
    ELSE IF scene = NullPtr THEN NullScene(call(FALSE, NullPtr))
    ELSE IF sensor = NullPtr THEN Fails(call(FALSE, NullPtr))
    ELSE
        LET parent == Parent(_parentGazeboId)
        IN
        /\ nodes' = IF parent # NullPtr
                        THEN Reparent(nodes, parent, sensor)
                        ELSE nodes
        /\ sensors' = Put(sensors, _gazeboId, sensor)
        /\ last' = call(TRUE, sensor)
        /\ UNCHANGED <<worldId, scene, visuals, lights, materials, nextId,
                       nextMat, destroyed, greyMade, crashed>>

(* ------------------------- HasEntity, NodeById ------------------------ *)

\* (a NodeById that looks into the lights map first)
NodeById_lightsFirst(_id) ==
    IF Find(lights, _id) THEN lights[_id]
    ELSE IF Find(visuals, _id) THEN visuals[_id]
    ELSE IF Find(sensors, _id) THEN sensors[_id]
    ELSE NullPtr

HasEntity(_id) ==
    Find(visuals, _id) \/ Find(lights, _id) \/ Find(sensors, _id)

NodeById(_id) ==
    IF Find(visuals, _id) THEN visuals[_id]
    ELSE IF Find(lights, _id) THEN lights[_id]
    ELSE IF Find(sensors, _id) THEN sensors[_id]
    ELSE NullPtr

(* ----------------------------- RemoveEntity --------------------------- *)

DestroyCall(fn, node) == [call |-> fn, node |-> node]

\* (a RemoveEntity that has the scene destroy the sensor as well)
RemoveSensor_destroys(_id) ==
    /\ destroyed' =
           Append(destroyed, DestroyCall("DestroyVisual", sensors[_id]))
    /\ nodes' = SceneDestroy(nodes, sensors[_id])
    /\ sensors' = Erase(sensors, _id)
    /\ UNCHANGED <<visuals, lights>>

\* the sensor is forgotten, and nothing is destroyed
RemoveSensor(_id) ==
    /\ sensors' = Erase(sensors, _id)
    /\ UNCHANGED <<visuals, lights, nodes, destroyed>>

\* (a RemoveEntity that also forgets the entities placed under the visual)
RemoveVisual_cascades(_id) ==
    LET gone == visuals[_id]
        kept(m) == [k \in {x \in DOMAIN m : nodes[m[x]].parent # gone}
                      |-> m[k]]
    IN
    /\ destroyed' = Append(destroyed, DestroyCall("DestroyVisual", gone))
    /\ nodes' = SceneDestroy(nodes, gone)
    /\ visuals' = kept(Erase(visuals, _id))
    /\ lights' = kept(lights)
    /\ sensors' = kept(sensors)

\* the visual is destroyed and its entry erased
RemoveVisual(_id) ==
    /\ destroyed' =
           Append(destroyed, DestroyCall("DestroyVisual", visuals[_id]))
    /\ nodes' = SceneDestroy(nodes, visuals[_id])
    /\ visuals' = Erase(visuals, _id)
    /\ UNCHANGED <<lights, sensors>>

RemoveEntity(_id) ==
    LET call == Call("RemoveEntity", _id, 0, "", NoVisual, HasEntity(_id),
                     NodeById(_id))
    IN
    IF scene = NullPtr /\ (Find(visuals, _id) \/ Find(lights, _id))
        THEN NullScene(call)
    ELSE
    /\ last' = call
    /\ UNCHANGED <<worldId, scene, materials, nextId, nextMat, greyMade,
                   crashed>>
    /\ IF Find(visuals, _id) THEN RemoveVisual(_id)
       ELSE IF Find(lights, _id)
           THEN /\ destroyed' =
                       Append(destroyed,
                              DestroyCall("DestroyLight", lights[_id]))
                /\ nodes' = SceneDestroy(nodes, lights[_id])
                /\ lights' = Erase(lights, _id)
                /\ UNCHANGED <<visuals, sensors>>
       ELSE IF Find(sensors, _id) THEN RemoveSensor(_id)
       ELSE UNCHANGED <<visuals, lights, sensors, nodes, destroyed>>

(* ------------------------------- Next --------------------------------- *)

EntityDescs == [name : Names]

Light(name, type) == [name |-> name, type |-> type]

\* the lights the manager is given: every type, named or not
LightDescs ==
    { Light("", "POINT"), Light("a", "SPOT"), Light("a", "DIRECTIONAL"),
      Light("", "INVALID") }

\* room in the scene for the objects one more create call makes
Room == nextId <= MaxObjects

\* room in the scene for the material of one more LoadMaterial call
MaterialRoom == nextMat <= MaxMaterials

DoSetWorldId ==
    /\ ~crashed
    /\ \E id \in WorldIds : SetWorldId(id)
    /\ UNCHANGED pending

DoSetScene ==
    /\ ~crashed
    /\ \E s \in {NullPtr} \cup Scenes : SetScene(s)
    /\ UNCHANGED pending

DoCreateModel ==
    /\ ~crashed /\ Room
    /\ \E id \in Ids, m \in EntityDescs, pid \in Ids : CreateModel(id, m, pid)
    /\ UNCHANGED pending

DoCreateLink ==
    /\ ~crashed /\ Room
    /\ \E id \in Ids, l \in EntityDescs, pid \in Ids : CreateLink(id, l, pid)
    /\ UNCHANGED pending

DoCreateVisual ==
    /\ ~crashed /\ Room
    /\ \E id \in Ids, v \in VisualDescs, pid \in Ids : CreateVisual(id, v, pid)
    /\ UNCHANGED pending

DoCreateLight ==
    /\ ~crashed /\ Room
    /\ \E id \in Ids, l \in LightDescs, pid \in Ids : CreateLight(id, l, pid)
    /\ UNCHANGED pending

DoAddSensor ==
    /\ ~crashed
    /\ \E id \in Ids, rid \in RenderingIds, pid \in Ids :
           AddSensor(id, rid, pid)
    /\ UNCHANGED pending

DoRemoveEntity ==
    /\ ~crashed
    /\ \E id \in Ids : RemoveEntity(id)
    /\ UNCHANGED pending

\* LoadGeometry called on its own: the geometry it creates is handed to
\* the caller and nothing of the manager or of the node hierarchy changes
DoLoadGeometry ==
    /\ ~crashed
    /\ \E g \in Geometries :
          LET lg == LoadGeometry(g, One, PoseZero)
              call == Call("LoadGeometry", 0, 0, "", NoVisual,
                           lg.geom # "NONE", NullPtr)
          IN
          IF lg.geom # "NONE" /\ scene = NullPtr
              THEN NullScene(call)
              ELSE Fails(call)
    /\ UNCHANGED pending

\* LoadMaterial called on its own: the scene creates a material, and the
\* call returns it unless it dies on the null workflow
DoLoadMaterial ==
    /\ ~crashed /\ MaterialRoom
    /\ \E m \in MaterialDescs \ {"NONE"} :
          LET call(ok, mat) ==
                  Call("LoadMaterial", 0, 0, "", Visual("", NoGeom, m), ok,
                       mat)
          IN
          IF scene = NullPtr THEN NullScene(call(FALSE, NullPtr))
          ELSE \E end \in LoadMaterial(m) :
                 /\ nextMat' = nextMat + 1
                 /\ crashed' = (end = "crash")
                 /\ last' = IF end = "crash" THEN call(FALSE, NullPtr)
                                             ELSE call(TRUE, nextMat)
                 /\ UNCHANGED <<worldId, scene, visuals, lights, sensors,
                                nodes, materials, nextId, destroyed,
                                greyMade>>
    /\ UNCHANGED pending

Next ==
    \/ DoSetWorldId
    \/ DoSetScene
    \/ DoCreateModel
    \/ DoCreateLink
    \/ DoCreateVisual
    \/ DoCreateLight
    \/ DoAddSensor
    \/ DoRemoveEntity
    \/ DoLoadGeometry
    \/ DoLoadMaterial

Spec == Init /\ [][Next]_vars

(* ------------------------- a caller that retries ---------------------- *)

\* The calls a caller makes again: each create operation, for every id
\* and parent id, with a description that passes the operation's own
\* checks (a box, a point light, a sensor the scene has).
RetryCalls ==
    {Pending("failed", op, id, pid, name) :
        op \in {"CreateModel", "CreateLink", "CreateVisual", "CreateLight",
                "AddSensor"},
        id \in Ids, pid \in Ids, name \in Names}

Invoke(c) ==
    CASE c.op = "CreateModel" -> CreateModel(c.id, [name |-> c.name], c.pid)
      [] c.op = "CreateLink" -> CreateLink(c.id, [name |-> c.name], c.pid)
      [] c.op = "CreateVisual" ->
            CreateVisual(c.id,
                         Visual(c.name, Geom("BOX", <<1, 2, 3>>, UnitZ, ""),
                                "NONE"),
                         c.pid)
      [] c.op = "CreateLight" ->
            CreateLight(c.id, Light(c.name, "POINT"), c.pid)
      [] c.op = "AddSensor" ->
            AddSensor(c.id, CHOOSE s \in SensorIds : TRUE, c.pid)

\* a create call is made whose id is free and whose parent is not
\* registered yet; the caller notes it
FirstTry ==
    /\ ~crashed /\ Room
    /\ pending.state # "failed"
    /\ \E c \in RetryCalls :
          /\ ParentMissing(c.pid)
          /\ ~Find(IF c.op = "CreateLight" THEN lights
                   ELSE IF c.op = "AddSensor" THEN sensors
                   ELSE visuals, c.id)
          /\ Invoke(c)
          /\ pending' = c

\* the caller creates models, links and visuals, the missing parent among
\* them
CreateParents ==
    /\ ~crashed /\ Room
    /\ pending.state = "failed"
    /\ \E c \in RetryCalls :
          /\ c.op \in {"CreateModel", "CreateLink", "CreateVisual"}
          /\ Invoke(c)
    /\ UNCHANGED pending

\* the caller makes the noted call again
Retry ==
    /\ ~crashed /\ Room
    /\ pending.state = "failed"
    /\ Invoke(pending)
    /\ pending' = [pending EXCEPT !.state = "retried"]

RetryNext ==
    \/ DoSetWorldId
    \/ DoSetScene
    \/ FirstTry
    \/ CreateParents
    \/ DoRemoveEntity
    \/ Retry

RetrySpec == Init /\ [][RetryNext]_vars
(* ====================================================================== *)
(*                               properties                               *)
(* ====================================================================== *)

CreateOps ==
    {"CreateModel", "CreateLink", "CreateVisual", "CreateLight", "AddSensor"}

VisualOps == {"CreateModel", "CreateLink", "CreateVisual"}

\* the map a create operation writes to
MapOf(op) ==
    IF op = "CreateLight" THEN lights
    ELSE IF op = "AddSensor" THEN sensors
    ELSE visuals

Registered == Range(visuals) \cup Range(lights) \cup Range(sensors)

\* h is alive and is a child of an alive node
Attached(h) ==
    /\ h \in DOMAIN nodes
    /\ nodes[h].parent \in DOMAIN nodes
    /\ h \in nodes[nodes[h].parent].children

SensorNodes(ns) == {h \in DOMAIN ns : ns[h].kind = "sensor"}

(* C1: a create call whose id is a key of any of the three maps fails and *)
(* leaves the three maps and the scene hierarchy as they were.            *)
C1_DuplicateInAnyMapRejected ==
    [][ (last'.op \in CreateOps /\ HasEntity(last'.id))
            => (~last'.ok /\ UNCHANGED <<visuals, lights, sensors, nodes>>)
      ]_vars

(* C2: a create call whose id is a key of the map the call writes to      *)
(* fails and changes nothing, and the node bound to an id stays bound to  *)
(* it until RemoveEntity is called for that id.                           *)
C2_DuplicateInOwnMapRejected ==
    [][ /\ (last'.op \in CreateOps /\ Find(MapOf(last'.op), last'.id))
              => /\ ~last'.ok
                 /\ last'.node = NullPtr
                 /\ UNCHANGED <<worldId, scene, visuals, lights, sensors,
                                nodes, materials, nextId, nextMat,
                                destroyed, greyMade, crashed>>
        /\ \A id \in Ids :
              ~(last'.op = "RemoveEntity" /\ last'.id = id)
                  => /\ Find(visuals, id)
                        => Find(visuals', id) /\ visuals'[id] = visuals[id]
                     /\ Find(lights, id)
                        => Find(lights', id) /\ lights'[id] = lights[id]
                     /\ Find(sensors, id)
                        => Find(sensors', id) /\ sensors'[id] = sensors[id]
      ]_vars

\* a create call has just been turned down for its id alone
C2_Witness ==
    /\ last.op \in {"CreateVisual", "AddSensor"}
    /\ ~last.ok
    /\ Find(MapOf(last.op), last.id)
    /\ ~ParentMissing(last.pid)

(* C3: a create call whose parent id is not the world id and is no key of *)
(* the visuals map fails, creates no node and leaves the maps unchanged.  *)
C3_MissingParentRejected ==
    [][ (/\ last'.op \in CreateOps
         /\ last'.pid # worldId
         /\ ~Find(visuals, last'.pid))
            => /\ ~last'.ok
               /\ last'.node = NullPtr
               /\ UNCHANGED <<visuals, lights, sensors, nodes, nextId>>
      ]_vars

\* a create call has just been turned down for its parent alone, and that
\* parent id is a key of the lights or of the sensors map
C3_Witness ==
    /\ last.op \in CreateOps
    /\ ~last.ok
    /\ ~Find(MapOf(last.op), last.id)
    /\ last.pid # worldId
    /\ ~Find(visuals, last.pid)
    /\ Find(lights, last.pid) \/ Find(sensors, last.pid)

(* C4: every node that is a value of one of the three maps is attached in *)
(* the scene hierarchy, under its parent or under the root visual.        *)
C4_RegisteredNodesAttached == \A h \in Registered : Attached(h)

(* C5: a model, link or visual created under a registered parent is named *)
(* <parent name>::<n>, n being its own name or else its id in decimal.    *)
C5_ChildNamePrefixed ==
    [][ (last'.op \in VisualOps /\ last'.ok /\ last'.pid # worldId)
            => nodes'[last'.node].name =
                   nodes[visuals[last'.pid]].name \o "::"
                     \o (IF last'.name = "" THEN to_string(last'.id)
                                            ELSE last'.name)
      ]_vars

(* C6: with a scene set, RemoveEntity(id) for a key of the visuals map    *)
(* hands the node to DestroyVisual, and from then on HasEntity(id) is     *)
(* false and NodeById(id) is empty until id is created again.             *)
C6_RemovedVisualIsGone ==
    [][ \A id \in Ids :
          /\ (last'.op = "RemoveEntity" /\ last'.id = id
                /\ scene # NullPtr /\ Find(visuals, id))
                => /\ destroyed' =
                         Append(destroyed,
                                DestroyCall("DestroyVisual", visuals[id]))
                   /\ ~HasEntity(id)'
                   /\ NodeById(id)' = NullPtr
          /\ (~HasEntity(id) /\ HasEntity(id)')
                => (last'.op \in CreateOps /\ last'.id = id)
      ]_vars

(* C7: the manager never has the scene destroy a sensor: a RemoveEntity   *)
(* that erases a sensors entry makes no destroy call, and no destroy call *)
(* ever names a sensor node.                                              *)
C7_SensorsNeverDestroyed ==
    [][ /\ (last'.op = "RemoveEntity" /\ sensors' # sensors)
              => UNCHANGED <<destroyed, nodes>>
        /\ \A i \in DOMAIN destroyed' :
              /\ destroyed'[i].node \notin Range(sensors) \cup Range(sensors')
              /\ destroyed'[i].node \notin SensorNodes(nodes)
        /\ SensorNodes(nodes') = SensorNodes(nodes)
      ]_vars

\* RemoveEntity has just erased a sensor, after a visual was destroyed
C7_Witness ==
    /\ last.op = "RemoveEntity"
    /\ last.ok
    /\ last.node \in SensorNodes(nodes)
    /\ ~Find(sensors, last.id)
    /\ Len(destroyed) > 0

(* C8: a sensor node is a child of at most one node, and a successful     *)
(* AddSensor with a resolved parent leaves the sensor a child of that     *)
(* parent and of no other node.                                           *)
C8_SensorHasOneParent ==
    [][ /\ \A s \in SensorNodes(nodes') :
              /\ Cardinality(ParentsOf(nodes', s)) <= 1
              /\ ParentsOf(nodes', s) = {nodes'[s].parent} \ {NullPtr}
        /\ (last'.op = "AddSensor" /\ last'.ok /\ last'.pid # worldId)
              => ParentsOf(nodes', last'.node) = {visuals[last'.pid]}
      ]_vars

\* the same sensor is registered under two ids, has just been added under
\* a visual, and another visual is registered
C8_Witness ==
    /\ last.op = "AddSensor" /\ last.ok /\ last.pid # worldId
    /\ \E a \in DOMAIN sensors : a # last.id /\ sensors[a] = last.node
    /\ Find(visuals, last.pid)
    /\ nodes[last.node].parent = visuals[last.pid]
    /\ \E v \in DOMAIN visuals : v # last.pid

(* C9: every visual created without material and with a geometry that is  *)
(* resolved and is no mesh gets the one material named "ign-grey", which  *)
(* the manager creates at most once.                                      *)
C9_DefaultMaterialShared ==
    [][ /\ greyMade' <= 1
        /\ Find(materials, DefaultMaterialName) => materials' = materials
        /\ \A h \in DOMAIN nodes \cap DOMAIN nodes' :
              nodes'[h].mat = nodes[h].mat
        /\ (/\ last'.op = "CreateVisual" /\ last'.ok
            /\ last'.visual.material = "NONE"
            /\ nodes'[last'.node].geom \notin {"NONE", "MESH"})
              => /\ Find(materials', DefaultMaterialName)
                 /\ nodes'[last'.node].mat = materials'[DefaultMaterialName]
      ]_vars

\* two visuals are registered that carry the default material
C9_Witness ==
    /\ last.op = "CreateVisual" /\ last.ok
    /\ last.visual.material = "NONE"
    /\ Find(materials, DefaultMaterialName)
    /\ \E a, b \in DOMAIN visuals :
          /\ a # b
          /\ nodes[visuals[a]].mat = materials[DefaultMaterialName]
          /\ nodes[visuals[b]].mat = materials[DefaultMaterialName]

(* C10: HasEntity(id) holds exactly when id is a key of one of the maps,  *)
(* NodeById(id) is non-empty exactly then, and it is the entry of the     *)
(* first of visuals, lights, sensors that has the key.                    *)
C10_LookupsAgreeWithMaps ==
    \A id \in Ids :
        /\ HasEntity(id)
              <=> id \in DOMAIN visuals \cup DOMAIN lights \cup DOMAIN sensors
        /\ (NodeById(id) # NullPtr) <=> HasEntity(id)
        /\ id \in DOMAIN visuals => NodeById(id) = visuals[id]
        /\ (id \notin DOMAIN visuals /\ id \in DOMAIN lights)
              => NodeById(id) = lights[id]
        /\ (id \notin DOMAIN visuals /\ id \notin DOMAIN lights
              /\ id \in DOMAIN sensors)
              => NodeById(id) = sensors[id]

\* an id is a key of the visuals map and of the lights map
C10_Witness ==
    \E id \in Ids :
        /\ Find(visuals, id) /\ Find(lights, id)
        /\ visuals[id] # lights[id]
        /\ NodeById(id) = visuals[id]

\* m without the key k, written without the map operations of the model
Without(m, k) == [x \in DOMAIN m \ {k} |-> m[x]]

(* C11: with a scene set, RemoveEntity(id) erases id from the first of    *)
(* visuals, lights, sensors that has it and leaves the other two maps and *)
(* the other keys of that map as they were; for an id in no map it        *)
(* changes nothing and makes no scene call, with or without a scene.      *)
C11_RemoveErasesFirstMatchOnly ==
    [][ \A id \in Ids :
          (/\ last'.op = "RemoveEntity" /\ last'.id = id
           /\ scene # NullPtr \/ ~HasEntity(id))
            => IF id \in DOMAIN visuals
                   THEN /\ visuals' = Without(visuals, id)
                        /\ UNCHANGED <<lights, sensors>>
               ELSE IF id \in DOMAIN lights
                   THEN /\ lights' = Without(lights, id)
                        /\ UNCHANGED <<visuals, sensors>>
               ELSE IF id \in DOMAIN sensors
                   THEN /\ sensors' = Without(sensors, id)
                        /\ UNCHANGED <<visuals, lights>>
               ELSE UNCHANGED <<visuals, lights, sensors, nodes, materials,
                                nextId, nextMat, destroyed, greyMade,
                                crashed>>
      ]_vars

\* RemoveEntity has just erased the visuals entry of an id that is a key
\* of the sensors map as well, and another visual stays registered
C11_Witness ==
    /\ last.op = "RemoveEntity" /\ last.ok
    /\ Len(destroyed) > 0
    /\ destroyed[Len(destroyed)] = DestroyCall("DestroyVisual", last.node)
    /\ ~Find(visuals, last.id)
    /\ Find(sensors, last.id)
    /\ visuals # <<>>
\* the operations that create a node
NodeOps == {"CreateModel", "CreateLink", "CreateVisual", "CreateLight"}

(* C12: right after a successful CreateModel, CreateLink, CreateVisual or *)
(* CreateLight for id, NodeById(id) is the node the call returned, and it *)
(* still is after the next call unless that call is RemoveEntity(id).     *)
C12_CreateLookupRoundTrip ==
    [][ \A id \in Ids :
          /\ (last'.op \in NodeOps /\ last'.ok /\ last'.id = id)
                => NodeById(id)' = last'.node
          /\ (/\ last.op \in NodeOps /\ last.ok /\ last.id = id
              /\ ~(last'.op = "RemoveEntity" /\ last'.id = id))
                => NodeById(id)' = last.node
      ]_vars
(* C13: with a scene set, a node registered in visuals or lights is       *)
(* handed to the scene's destroy operation once, by the RemoveEntity call *)
(* that erases its entry, and a RemoveEntity of the id of the call before *)
(* it, with no create in between, makes no destroy call.                  *)
C13_DestroyedExactlyOnce ==
    [][ /\ \A i, j \in DOMAIN destroyed' :
              destroyed'[i].node = destroyed'[j].node => i = j
        /\ \A id \in Ids :
              (last'.op = "RemoveEntity" /\ last'.id = id
                 /\ scene # NullPtr)
                => IF id \in DOMAIN visuals
                       THEN destroyed' =
                              Append(destroyed,
                                     DestroyCall("DestroyVisual", visuals[id]))
                   ELSE IF id \in DOMAIN lights
                       THEN destroyed' =
                              Append(destroyed,
                                     DestroyCall("DestroyLight", lights[id]))
                   ELSE destroyed' = destroyed
        /\ last'.op # "RemoveEntity" => destroyed' = destroyed
        /\ (/\ last.op = "RemoveEntity"
            /\ last'.op = "RemoveEntity" /\ last'.id = last.id)
              => destroyed' = destroyed
      ]_vars
\* h is a child of p, and of no other node
ChildOf(h, p) == nodes[h].parent = p /\ ParentsOf(nodes, h) = {p}

(* C14: after a successful create the returned node is the child of the   *)
(* resolved parent; with the world as parent a model is a child of the    *)
(* root visual, and a link or visual is registered and has no parent.     *)
C14_AttachmentDependsOnKind ==
    (last.op \in NodeOps /\ last.ok)
        => /\ last.node \in DOMAIN nodes
           /\ IF last.pid # worldId
                  THEN /\ Find(visuals, last.pid)
                       /\ ChildOf(last.node, visuals[last.pid])
              ELSE IF last.op = "CreateModel"
                  THEN ChildOf(last.node, RootId)
              ELSE IF last.op \in {"CreateLink", "CreateVisual"}
                  THEN /\ visuals[last.id] = last.node
                       /\ nodes[last.node].parent = NullPtr
                       /\ ParentsOf(nodes, last.node) = {}
              ELSE TRUE

\* a link or visual has just been created under the world, next to a
\* model that was created under the world
C14_Witness ==
    /\ last.op \in {"CreateLink", "CreateVisual"}
    /\ last.ok /\ last.pid = worldId
    /\ nodes[last.node].parent = NullPtr
    /\ \E k \in DOMAIN visuals :
          /\ visuals[k] # last.node
          /\ nodes[visuals[k]].parent = RootId
\* a geometry is given and LoadGeometry has nothing to create for it
Unresolvable(g) ==
    /\ g.type # "NULL"
    /\ \/ g.type \notin {"BOX", "CYLINDER", "PLANE", "SPHERE", "MESH"}
       \/ g.type = "MESH" /\ g.uri = ""

(* C15: with a scene set, a CreateVisual that gets past its three checks  *)
(* with a geometry that cannot be resolved succeeds: one node is created, *)
(* registered under the id, attached to the resolved parent and returned, *)
(* it has no geometry and no material, and no material is created.        *)
C15_UnresolvedGeometryStillSucceeds ==
    [][ (/\ scene # NullPtr
         /\ last'.op = "CreateVisual" /\ Unresolvable(last'.visual.geom))
          => /\ last'.ok
             /\ last'.node # NullPtr
             /\ DOMAIN nodes' = DOMAIN nodes \cup {last'.node}
             /\ last'.node \notin DOMAIN nodes
             /\ visuals' = [k \in DOMAIN visuals \cup {last'.id} |->
                              IF k = last'.id THEN last'.node ELSE visuals[k]]
             /\ nodes'[last'.node].geom = "NONE"
             /\ nodes'[last'.node].mat = NullPtr
             /\ last'.pid # worldId
                  => /\ nodes'[last'.node].parent = visuals[last'.pid]
                     /\ last'.node \in nodes'[visuals[last'.pid]].children
             /\ UNCHANGED <<materials, nextMat, greyMade, crashed>>
      ]_vars

\* a visual whose mesh has no uri has just been created under a parent
C15_Witness ==
    /\ last.op = "CreateVisual" /\ last.ok
    /\ last.visual.geom.type = "MESH" /\ last.visual.geom.uri = ""
    /\ last.pid # worldId
    /\ visuals[last.id] = last.node
    /\ nodes[last.node].parent = visuals[last.pid]
    /\ nodes[last.node].geom = "NONE"
\* the vector does not point along +Z
NotAlongZ(n) == ~(n[1] = 0 /\ n[2] = 0 /\ n[3] >= 0)

\* a plane whose normal is not +Z: the one geometry that is resolved with
\* a corrective pose other than the identity
TiltedPlane(g) == g.type = "PLANE" /\ NotAlongZ(g.normal)

\* the nodes a step has created
Created == DOMAIN nodes' \ DOMAIN nodes

(* C16: a successful CreateVisual creates a second node, named as the     *)
(* first with "_geom" appended, exactly when the geometry is a plane      *)
(* whose normal is not +Z; that node is then the one registered and       *)
(* returned and it carries the geometry and the scale.  In every other    *)
(* case one node is created and it is the one registered.                 *)
C16_GeomNodeOnlyForTiltedPlane ==
    [][ (last'.op = "CreateVisual" /\ last'.ok)
          => /\ last'.node \in Created
             /\ visuals'[last'.id] = last'.node
             /\ IF TiltedPlane(last'.visual.geom)
                    THEN \E o \in Created :
                           /\ Created = {o, last'.node}
                           /\ o # last'.node
                           /\ nodes'[last'.node].name =
                                  nodes'[o].name \o "_geom"
                           /\ nodes'[last'.node].geom = "PLANE"
                           /\ nodes'[last'.node].scale =
                                  <<last'.visual.geom.dims[1],
                                    last'.visual.geom.dims[2], 1>>
                           /\ nodes'[o].geom = "NONE"
                    ELSE Created = {last'.node}
      ]_vars

\* a plane with normal (1,0,0) has just been created: two nodes, and the
\* one registered is the second
C16_Witness ==
    /\ last.op = "CreateVisual" /\ last.ok
    /\ TiltedPlane(last.visual.geom)
    /\ visuals[last.id] = last.node
    /\ last.node - 1 \in DOMAIN nodes
    /\ nodes[last.node].name = nodes[last.node - 1].name \o "_geom"
    /\ nodes[last.node].geom = "PLANE"
\* the nodes the manager has created and not destroyed
ManagerNodes == {h \in DOMAIN nodes : h # RootId /\ nodes[h].kind # "sensor"}

(* C17: when CreateVisual has made a _geom node, the node created first   *)
(* is the parent of the _geom node and a child of the resolved parent,    *)
(* and no node the manager has created is both unregistered and           *)
(* unattached.                                                            *)
C17_GeomNodeUnderVisualNode ==
    ~crashed
      => /\ (/\ last.op = "CreateVisual" /\ last.ok
             /\ TiltedPlane(last.visual.geom))
               => /\ last.node - 1 \in DOMAIN nodes
                  /\ nodes[last.node].parent = last.node - 1
                  /\ last.node \in nodes[last.node - 1].children
                  /\ last.pid # worldId
                       => nodes[last.node - 1].parent = visuals[last.pid]
         /\ \A h \in ManagerNodes : h \in Registered \/ Attached(h)
(* C18: with a scene set, LoadMaterial, called on its own or by           *)
(* CreateVisual, dies on a null workflow pointer only for a material      *)
(* whose PBR block lacks the metal workflow and names maps; for every     *)
(* other material the call returns a material, which the visual then      *)
(* carries.                                                               *)
C18_NullWorkflowOnlyWithMaps ==
    scene # NullPtr
      => /\ crashed
              => (last.op \in {"CreateVisual", "LoadMaterial"}
                    /\ last.visual.material = "PBR_OTHER_MAPS")
         /\ (/\ last.op = "LoadMaterial"
             /\ last.visual.material \in {"PLAIN", "PBR_METAL", "PBR_OTHER"})
              => /\ last.ok
                 /\ last.node # NullPtr
         /\ (/\ last.op = "CreateVisual"
             /\ last.visual.material \in {"PLAIN", "PBR_METAL", "PBR_OTHER"}
             /\ ~Unresolvable(last.visual.geom))
              => /\ last.ok
                 /\ nodes[last.node].mat # NullPtr
\* the names of nodes created under a parent
ChildNames ==
    {p \o "::" \o c : p \in {"a", "0", "1"}, c \in {"a", "0", "1"}}

(* C20: with a scene set, RemoveEntity of a visual leaves every other     *)
(* entry of the three maps bound to the node it had, the entities created *)
(* under that visual included, so HasEntity stays true for them; the      *)
(* removed id no longer resolves as a parent, and a create that names it  *)
(* as parent fails.                                                       *)
C20_RemoveDoesNotCascade ==
    [][ /\ \A id \in Ids :
              (/\ scene # NullPtr
               /\ last'.op = "RemoveEntity" /\ last'.id = id
               /\ Find(visuals, id))
                => /\ \A k \in DOMAIN visuals \ {id} :
                         /\ Find(visuals', k) /\ visuals'[k] = visuals[k]
                         /\ HasEntity(k)'
                   /\ \A k \in DOMAIN lights :
                         /\ Find(lights', k) /\ lights'[k] = lights[k]
                         /\ HasEntity(k)'
                   /\ \A k \in DOMAIN sensors :
                         /\ Find(sensors', k) /\ sensors'[k] = sensors[k]
                         /\ HasEntity(k)'
                   /\ ~Find(visuals', id)
                   /\ id # worldId => ParentMissing(id)'
        /\ (last'.op \in CreateOps /\ ParentMissing(last'.pid))
              => ~last'.ok
      ]_vars

\* a visual has just been removed and destroyed while an entity that was
\* created under it is still registered, now without a parent
C20_Witness ==
    /\ last.op = "RemoveEntity" /\ last.ok
    /\ last.id # worldId
    /\ last.node \notin DOMAIN nodes
    /\ ParentMissing(last.id)
    /\ \E h \in Range(visuals) \cup Range(lights) :
          /\ nodes[h].name \in ChildNames
          /\ nodes[h].parent = NullPtr
\* the map the noted call writes to, after the step
OwnMapAfter ==
    IF pending.op = "CreateLight" THEN lights'
    ELSE IF pending.op = "AddSensor" THEN sensors'
    ELSE visuals'

(* C19: a create call that failed for its missing parent alone leaves     *)
(* nothing behind but the record of the call, and when it is made again   *)
(* with the parent registered by then (the id still free, a scene set)    *)
(* it succeeds, registers the id and puts the node under that parent.     *)
C19_RetryAfterParentCreated ==
    [][ /\ (pending.state # "failed" /\ pending'.state = "failed")
              => /\ ~last'.ok
                 /\ UNCHANGED <<worldId, scene, visuals, lights, sensors,
                                nodes, materials, nextId, nextMat,
                                destroyed, greyMade, crashed>>
        /\ (/\ pending.state = "failed" /\ pending'.state = "retried"
            /\ scene # NullPtr
            /\ pending.pid # worldId /\ Find(visuals, pending.pid)
            /\ ~Find(MapOf(pending.op), pending.id))
              => /\ last'.ok
                 /\ last'.op = pending.op /\ last'.id = pending.id
                 /\ Find(OwnMapAfter, pending.id)
                 /\ OwnMapAfter[pending.id] = last'.node
                 /\ nodes'[last'.node].parent = visuals[pending.pid]
                 /\ last'.node \in nodes'[visuals[pending.pid]].children
      ]_vars

\* a link that failed for its parent has been created on the second try,
\* under the parent created in between
C19_Witness ==
    /\ pending.state = "retried"
    /\ pending.op = "CreateLink"
    /\ last.op = "CreateLink" /\ last.ok
    /\ last.id = pending.id /\ last.pid = pending.pid
    /\ last.pid # worldId
    /\ visuals[last.id] = last.node
    /\ nodes[last.node].parent = visuals[last.pid]
====
